---- MODULE Spec2Model ----
(***************************************************************************)
(* Model of graphlab_util/gl_pickle.py: GLPickler / GLUnpickler.           *)
(*                                                                         *)
(* The file system is modelled as                                          *)
(*   disk   : the files named by the `filename` arguments (archives and    *)
(*            plain pickle files),                                         *)
(*   rootfs : for every staging root, the set of nodes (files and          *)
(*            directories) below it, each named by its relative path.      *)
(* A value graph is pickled item by item: every item is offered to the     *)
(* persistent_id hook and then written to the staged pickle file either as *)
(* a reference or inline.                                                  *)
(***************************************************************************)
EXTENDS Integers, Sequences, FiniteSets, TLC

\* ---------------------------------------------------------------- bounds
MaxHooks == 2     \* persistent_id calls per pickler
MaxCloses == 2    \* close() calls per pickler

\* ------------------------------------------------------------- universe
Picklers == {"p1", "p2"}
ExistingRoots == {"r1", "r2"}
AllRoots == ExistingRoots \cup {"nx"}
ArchivePaths == {"a1", "a2"}
FilePaths == ArchivePaths \cup {"h"}
\* the filename each pickler is constructed with
ArchiveOf(p) == IF p = "p1" THEN "a1" ELSE "a2"

None == "None"
NoFile == [kind |-> "none"]

\* uuid4(): the n-th draw of the run
uuid4(n) == <<"u1", "u2", "u3", "u4", "u5", "u6", "u7", "u8", "u9", "u10">>[n]

\* ------------------------------------------------------------- classes
\* inspect.getmro of the classes of the model
getmro(cls) ==
  CASE cls = "SFrame" -> <<"SFrame", "object">>
    [] cls = "SArray" -> <<"SArray", "object">>
    [] cls = "SGraph" -> <<"SGraph", "object">>
    [] cls = "Model" -> <<"Model", "object">>
    [] cls = "KMeans" -> <<"KMeans", "Model", "object">>
    [] cls = "DeepModel" -> <<"DeepModel", "KMeans", "Model", "object">>
    [] cls = "MixinModel" -> <<"MixinModel", "Model", "Mixin", "object">>
    [] cls = "dict" -> <<"dict", "object">>
    [] OTHER -> <<cls>>

Classes == {"SFrame", "SArray", "SGraph", "Model", "KMeans", "DeepModel",
            "MixinModel", "dict"}

_is_gl_model_class(obj_class) ==
  LET mro == getmro(obj_class) IN
  IF Len(mro) > 2 THEN mro[Len(mro) - 1] = "Model" ELSE FALSE

_is_gl_class(obj_class) ==
  obj_class \in {"SFrame", "SArray", "SGraph"} \/ _is_gl_model_class(obj_class)

_get_gl_class_type_ds(obj_class) ==
  IF obj_class \in {"SFrame", "SGraph", "SArray"} THEN obj_class ELSE None
_get_gl_class_type(obj_class) ==
  IF obj_class = "SFrame" THEN "SFrame"
  ELSE IF obj_class = "SGraph" THEN "SGraph"
  ELSE IF obj_class = "SArray" THEN "SArray"
  ELSE IF _is_gl_model_class(obj_class) THEN "Model"
  ELSE None

\* the tags _get_gl_object_from_persistent_id dispatches on
KnownTagAll(type_tag) == TRUE
KnownTag(type_tag) == type_tag \in {"SFrame", "SGraph", "SArray", "Model"}

\* ------------------------------------------------------- files and nodes
DirData == [kind |-> "dir"]
Payload(state) == [kind |-> "payload", state |-> state]
BlobData(items) == [kind |-> "blob", items |-> items]
Node(path, isdir, data) == [path |-> path, isdir |-> isdir, data |-> data]

\* names glob's '*' does not match
Hidden(name) == name \in {".", "..", ".h"}

\* what an object's save(directory) leaves at the (relative) target path
SaveShapes == {"empty", "flat", "nested"}
SaveOutput(shape, state) ==
  CASE shape = "empty" -> {Node(<<>>, TRUE, DirData)}
    [] shape = "flat" -> {Node(<<>>, TRUE, DirData),
                          Node(<<"f">>, FALSE, Payload(state))}
    [] shape = "nested" -> {Node(<<>>, TRUE, DirData),
                            Node(<<"f">>, FALSE, Payload(state)),
                            Node(<<"d">>, TRUE, DirData),
                            Node(<<"d", "g">>, FALSE, Payload(state))}

Obj(cls, shape, state) == [kind |-> "obj", cls |-> cls, shape |-> shape, state |-> state]
Val(v) == [kind |-> "val", v |-> v]
Ref(tag, path) == [kind |-> "ref", tag |-> tag, path |-> path]

\* obj.save(join(root, name)): the nodes created below the staging root
save(obj, name) ==
  {Node(<<name>> \o n.path, n.isdir, n.data) : n \in SaveOutput(obj.shape, obj.state)}

\* the nodes of fs other than those at the paths of nodes
Without(fs, nodes) == {m \in fs : \A n \in nodes : m.path # n.path}
WriteNodes(fs, nodes) == Without(fs, nodes) \cup nodes

IsPrefix(p, q) == Len(p) <= Len(q) /\ SubSeq(q, 1, Len(p)) = p

\* glob.glob(join(root, name, '*'))
globRoot(fs, name) == {n \in fs : Len(n.path) = 1 /\ ~Hidden(n.path[1])}
glob(fs, name) == {n \in fs : Len(n.path) = 2 /\ n.path[1] = name /\ ~Hidden(n.path[2])}

RECURSIVE SetToSeq(_)
SetToSeq(S) ==
  IF S = {} THEN <<>>
  ELSE LET x == CHOOSE y \in S : TRUE IN <<x>> \o SetToSeq(S \ {x})

\* ------------------------------------------------------------ zip files
Entry(name, isdir, data) == [name |-> name, isdir |-> isdir, data |-> data]
ManifestData(blob, version) == [kind |-> "manifest", blob |-> blob, version |-> version]
ManifestName == <<"pickle_file">>
ZipOf(entries) == [kind |-> "zip", entries |-> entries]

\* ZipFile(f, mode='a'); zf.write(abs_name, rel_name) for each node; zf.close()
ZipAppend(f, nodes) ==
  IF nodes = <<>> THEN f
  ELSE ZipOf((IF f.kind = "zip" THEN f.entries ELSE <<>>)
             \o [i \in 1..Len(nodes) |-> Entry(nodes[i].path, nodes[i].isdir, nodes[i].data)])

\* values whose pickled bytes carry a zip end-of-central-directory record
ZipBytes == {"zipbytes"}

\* zipfile.is_zipfile(filename): looks for the end record in the file's tail
is_zipfile(f) ==
  \/ f.kind = "zip"
  \/ /\ f.kind = "blob"
     /\ \E i \in 1..Len(f.items) : f.items[i].kind = "val" /\ f.items[i].v \in ZipBytes

\* ZipFile(filename).infolist(): a pickled empty archive lists no entry
infolist(f) == IF f.kind = "zip" THEN f.entries ELSE <<>>

\* the loop over zf.infolist() of GLUnpickler.__init__: the last manifest read
RECURSIVE FindManifest(_)
FindManifestDefault(entries) ==
  IF \E i \in 1..Len(entries) : entries[i].name = ManifestName
  THEN entries[CHOOSE i \in 1..Len(entries) : entries[i].name = ManifestName].data.blob
  ELSE "u1"
FindManifest(entries) ==
  IF entries = <<>> THEN None
  ELSE LET e == entries[Len(entries)] IN
       IF e.name = ManifestName THEN e.data.blob
       ELSE FindManifest(SubSeq(entries, 1, Len(entries) - 1))

\* the directories an extracted member is created in
Parents(path) == {Node(SubSeq(path, 1, k), TRUE, DirData) : k \in 1..(Len(path) - 1)}

\* zf.extractall(root): members are written in order, replacing what is there
RECURSIVE extractall(_, _)
extractall(fs, entries) ==
  IF entries = <<>> THEN fs
  ELSE LET e == entries[1]
           n == Node(e.name, e.isdir, e.data)
           ps == {q \in Parents(e.name) : \A m \in fs : m.path # q.path}
       IN extractall(WriteNodes(fs, {n}) \cup ps, Tail(entries))

\* ---------------------------------------------------------------- state
VARIABLES
  disk,         \* [FilePaths -> file]: NoFile, a zip archive or a plain pickle
  rootfs,       \* [AllRoots -> set of nodes] below each staging root
  uuidCount,    \* uuid4() draws so far
  pk,           \* [Picklers -> GLPickler object]; st is "none" before the
                \* constructor call, then "live", or "failed" if it raised
  pkRet,        \* [Picklers -> what the last persistent_id call returned]
  pkErr,        \* [Picklers -> outcome of the last pickler operation]
  orig,         \* [Picklers -> the items offered to persistent_id, in order]
  rets,         \* [Picklers -> what persistent_id returned for each of them]
  un,           \* the GLUnpickler object; st is "none" before the constructor
                \* call, then "ready" (or "failed" if it raised), "done" after load
  unErr,        \* outcome of the last unpickler operation
  unExtracted,  \* the members the last GLUnpickler construction extracted
  unResult,     \* the graph the last load() returned
  lastOp        \* the operation of the last step and its inputs

vars == <<disk, rootfs, uuidCount, pk, pkRet, pkErr, orig, rets, un, unErr,
          unExtracted, unResult, lastOp>>

\* os.path.exists(gl_temp_storage_path)
existsAny(root) == TRUE
exists(root) == root \in ExistingRoots

NoPickler == [st |-> "none", root |-> "", archive |-> "", blob |-> "",
              file |-> "unset", closes |-> 0, hooks |-> 0, late |-> 0]
NoRet == [kind |-> "none"]
NoUnpickler == [st |-> "none", root |-> "", src |-> "", name |-> "", of |-> {}]

\* the file open(join(root, name)) names, if there is one
FileAt(fs, name) == {n \in fs : n.path = <<name>> /\ ~n.isdir}

\* self.file.write(...) of the pickled form of one item
WriteBlob(fs, name, item) ==
  {IF n.path = <<name>> /\ n.data.kind = "blob"
   THEN Node(n.path, n.isdir, BlobData(Append(n.data.items, item)))
   ELSE n : n \in fs}

\* ----------------------------------------------------- GLPickler.__init__
\* the members of the archive the constructor leaves behind
ConstructorEntriesNone(relative_pickle_filename, ioZip) == <<>>
ConstructorEntries(relative_pickle_filename, ioZip) ==
  IF ioZip = "ok"
  THEN <<Entry(ManifestName, FALSE, ManifestData(relative_pickle_filename, "1.0"))>>
  ELSE <<>>

\* ioOpen: open(pickle_filename, 'wb') succeeds or raises IOError
\* ioZip : ZipFile(archive, 'w') raises ("failOpen"), writestr raises IOError
\*         ("failWrite"), or both succeed ("ok")
Construct(p, filename, root, ioOpen, ioZip) ==
  /\ pk[p].st = "none"
  /\ lastOp' = [op |-> "Construct", p |-> p, file |-> filename, root |-> root,
                io1 |-> ioOpen, io2 |-> ioZip]
  /\ UNCHANGED <<pkRet, orig, rets, un, unErr, unExtracted, unResult>>
  /\ IF ~exists(root)
     THEN /\ pkErr' = [pkErr EXCEPT ![p] = "RuntimeError:path"]
          /\ pk' = [pk EXCEPT ![p].st = "failed"]
          /\ UNCHANGED <<disk, rootfs, uuidCount>>
     ELSE LET relative_pickle_filename == uuid4(uuidCount + 1)
              file == IF ioOpen = "ok" THEN "open" ELSE "unset"
              obj == [st |-> "live", root |-> root, archive |-> filename,
                      blob |-> relative_pickle_filename, file |-> file,
                      closes |-> 0, hooks |-> 0, late |-> 0]
          IN
          /\ uuidCount' = uuidCount + 1
          /\ rootfs' = IF ioOpen = "ok"
                       THEN [rootfs EXCEPT ![root] = WriteNodes(@,
                               {Node(<<relative_pickle_filename>>, FALSE, BlobData(<<>>))})]
                       ELSE rootfs
          /\ CASE ioZip = "failOpen" ->
                    \* ZipFile(...) is outside the try: the error propagates
                    /\ pkErr' = [pkErr EXCEPT ![p] = "IOError"]
                    /\ pk' = [pk EXCEPT ![p].st = "failed"]
                    /\ UNCHANGED disk
               [] ioZip = "failWrite" /\ file = "unset" ->
                    \* the handler's self.file.close() finds no self.file
                    /\ disk' = [disk EXCEPT ![filename] =
                                 ZipOf(ConstructorEntries(relative_pickle_filename, ioZip))]
                    /\ pkErr' = [pkErr EXCEPT ![p] = "AttributeError"]
                    /\ pk' = [pk EXCEPT ![p].st = "failed"]
               [] ioZip = "failWrite" /\ file = "open" ->
                    /\ disk' = [disk EXCEPT ![filename] =
                                 ZipOf(ConstructorEntries(relative_pickle_filename, ioZip))]
                    /\ pkErr' = [pkErr EXCEPT ![p] = "ok"]
                    /\ pk' = [pk EXCEPT ![p] = [obj EXCEPT !.file = "closed"]]
               [] OTHER ->
                    /\ disk' = [disk EXCEPT ![filename] =
                                 ZipOf(ConstructorEntries(relative_pickle_filename, ioZip))]
                    /\ pkErr' = [pkErr EXCEPT ![p] = "ok"]
                    /\ pk' = [pk EXCEPT ![p] = obj]

\* -------------------------------------------------- GLPickler.persistent_id
\* the values and objects a graph is built of
Items ==
  {Val("a"), Obj("SFrame", "flat", "s1"), Obj("SGraph", "empty", "s1"),
   Obj("KMeans", "nested", "s2"), Obj("MixinModel", "flat", "s2")}

Externalized(item) == item.kind = "obj" /\ _is_gl_class(item.cls)

\* relative_filename = str(uuid4()): a new draw for every externalized object
HookNameBlob(p, obj, count) == pk[p].blob
HookNameMemo(p, obj, count) ==
  IF \E i \in 1..Len(orig[p]) : orig[p][i] = obj
  THEN rets[p][CHOOSE i \in 1..Len(orig[p]) : orig[p][i] = obj].path
  ELSE uuid4(count + 1)
HookName(p, obj, count) == uuid4(count + 1)

\* the hook call made for one item of the graph, followed by the pickler
\* writing the reference (or the item itself) to the staged pickle file
PersistentId(p, obj) ==
  /\ pk[p].st = "live"
  /\ pk[p].hooks < MaxHooks
  /\ lastOp' = [op |-> "PersistentId", p |-> p, file |-> pk[p].archive,
                root |-> pk[p].root, io1 |-> "ok", io2 |-> "ok"]
  /\ orig' = [orig EXCEPT ![p] = Append(@, obj)]
  /\ pk' = [pk EXCEPT ![p].hooks = @ + 1,
                      ![p].late = IF pk[p].closes > 0 THEN @ + 1 ELSE @]
  /\ UNCHANGED <<un, unErr, unExtracted, unResult>>
  /\ LET root == pk[p].root
         relative_filename == HookName(p, obj, uuidCount)
         saved == WriteNodes(rootfs[root], save(obj, relative_filename))
         pid == IF Externalized(obj)
                THEN Ref(_get_gl_class_type(obj.cls), relative_filename)
                ELSE NoRet
         written == IF Externalized(obj) THEN pid ELSE obj
         fs1 == IF Externalized(obj) THEN saved ELSE rootfs[root]
     IN
     /\ uuidCount' = IF Externalized(obj) THEN uuidCount + 1 ELSE uuidCount
     /\ disk' = IF Externalized(obj)
                THEN [disk EXCEPT ![pk[p].archive] =
                        ZipAppend(@, SetToSeq(glob(saved, relative_filename)))]
                ELSE disk
     /\ pkRet' = [pkRet EXCEPT ![p] = pid]
     /\ rets' = [rets EXCEPT ![p] = Append(@, pid)]
     /\ IF pk[p].file = "open"
        THEN /\ rootfs' = [rootfs EXCEPT ![root] = WriteBlob(fs1, pk[p].blob, written)]
             /\ pkErr' = [pkErr EXCEPT ![p] = "ok"]
        ELSE \* the write to a closed (or never opened) pickle file raises
             /\ rootfs' = [rootfs EXCEPT ![root] = fs1]
             /\ pkErr' = [pkErr EXCEPT ![p] =
                            IF pk[p].file = "closed" THEN "ValueError" ELSE "AttributeError"]

\* ---------------------------------------------------------- GLPickler.close
Close(p) ==
  /\ pk[p].st = "live"
  /\ pk[p].closes < MaxCloses
  /\ lastOp' = [op |-> "Close", p |-> p, file |-> pk[p].archive,
                root |-> pk[p].root, io1 |-> "ok", io2 |-> "ok"]
  /\ UNCHANGED <<rootfs, uuidCount, pkRet, orig, rets, un, unErr, unExtracted,
               unResult>>
  /\ IF pk[p].file = "unset"
     THEN \* self.file was never assigned
          /\ pkErr' = [pkErr EXCEPT ![p] = "AttributeError"]
          /\ UNCHANGED <<disk, pk>>
     ELSE LET blob == FileAt(rootfs[pk[p].root], pk[p].blob) IN
          /\ pk' = [pk EXCEPT ![p].file = "closed", ![p].closes = @ + 1]
          /\ IF blob = {}
             THEN /\ pkErr' = [pkErr EXCEPT ![p] = "IOError"]
                  /\ UNCHANGED disk
             ELSE /\ pkErr' = [pkErr EXCEPT ![p] = "ok"]
                  /\ disk' = [disk EXCEPT ![pk[p].archive] = ZipAppend(@, SetToSeq(blob))]

\* --------------------------------------------------- GLUnpickler.__init__
\* ioExtract: zf.extractall succeeds, or raises IOError after k members
\* (Next lets it fail on the first or on the last member)
Open(filename, root, ioExtract, k) ==
  /\ un.st = "none"
  /\ lastOp' = [op |-> "Open", p |-> "", file |-> filename, root |-> root,
                io1 |-> ioExtract, io2 |-> "ok"]
  /\ unResult' = <<>>
  /\ UNCHANGED <<disk, uuidCount, pk, pkRet, pkErr, orig, rets>>
  /\ LET failed == [NoUnpickler EXCEPT !.st = "failed"]
         f == disk[filename]
         \* the picklers whose finished archive is being opened
         of == {p \in Picklers : /\ pk[p].st = "live" /\ pk[p].archive = filename
                                  /\ pk[p].closes = 1 /\ pk[p].late = 0}
     IN
     IF ~exists(root)
     THEN /\ unErr' = "RuntimeError:path"
          /\ un' = failed
          /\ unExtracted' = <<>>
          /\ UNCHANGED rootfs
     ELSE IF f = NoFile
     THEN /\ unErr' = "RuntimeError:file"
          /\ un' = failed
          /\ unExtracted' = <<>>
          /\ UNCHANGED rootfs
     ELSE IF is_zipfile(f)
     THEN LET pickle_filename == FindManifest(infolist(f))
              members == IF ioExtract = "ok" THEN infolist(f)
                         ELSE SubSeq(infolist(f), 1, k)
              fs == extractall(rootfs[root], members)
          IN
          IF pickle_filename = None
          THEN /\ unErr' = "IOError:format"
               /\ un' = failed
               /\ unExtracted' = <<>>
               /\ UNCHANGED rootfs
          ELSE /\ rootfs' = [rootfs EXCEPT ![root] = fs]
               /\ unExtracted' = members
               /\ IF FileAt(fs, pickle_filename) = {}
                  THEN \* open(abs_pickle_filename, 'rb') raises
                       /\ unErr' = "IOError:open"
                       /\ un' = failed
                  ELSE /\ unErr' = "ok"
                       /\ un' = [st |-> "ready", root |-> root, src |-> "staged",
                                 name |-> pickle_filename, of |-> of]
     ELSE /\ unErr' = "ok"
          /\ un' = [st |-> "ready", root |-> root, src |-> "disk",
                    name |-> filename, of |-> of]
          /\ unExtracted' = <<>>
          /\ UNCHANGED rootfs

\* ----------------------------------- _get_gl_object_from_persistent_id
\* the nodes at and below join(root, path), named relative to it
Under(fs, path) ==
  {Node(Tail(n.path), n.isdir, n.data) : n \in {m \in fs : m.path # <<>> /\ m.path[1] = path}}

Loaded(type_tag, nodes) == [kind |-> "loaded", tag |-> type_tag, nodes |-> nodes]
Raise(err) == [kind |-> "raise", err |-> err]

_get_gl_object_from_persistent_id(fs, type_tag, path) ==
  IF KnownTag(type_tag)
  THEN IF Under(fs, path) = {}
       THEN Raise("IOError:load")      \* the type's own loader finds nothing
       ELSE Loaded(type_tag, Under(fs, path))
  ELSE Raise("UnpicklingError")

\* GLUnpickler.persistent_load
persistent_load(fs, pid) == _get_gl_object_from_persistent_id(fs, pid.tag, pid.path)

\* Unpickler.load over the items of the pickle: values are taken as they
\* are, references go through persistent_load; the first error ends the load
RECURSIVE LoadItems(_, _, _)
LoadItems(fs, items, acc) ==
  IF items = <<>> THEN [err |-> "ok", vals |-> acc]
  ELSE LET it == items[1] IN
       IF it.kind = "ref"
       THEN LET r == persistent_load(fs, it) IN
            IF r.kind = "raise" THEN [err |-> r.err, vals |-> <<>>]
            ELSE LoadItems(fs, Tail(items), Append(acc, r))
       ELSE LoadItems(fs, Tail(items), Append(acc, it))

\* the pickle the unpickler's file handle reads
Source(u) ==
  IF u.src = "disk" THEN disk[u.name]
  ELSE LET n == FileAt(rootfs[u.root], u.name) IN
       IF n = {} THEN NoFile ELSE (CHOOSE m \in n : TRUE).data

Load ==
  /\ un.st = "ready"
  /\ lastOp' = [op |-> "Load", p |-> "", file |-> un.name, root |-> un.root,
                io1 |-> "ok", io2 |-> "ok"]
  /\ UNCHANGED <<disk, rootfs, uuidCount, pk, pkRet, pkErr, orig, rets, unExtracted>>
  /\ un' = [un EXCEPT !.st = "done"]
  /\ LET src == Source(un) IN
     IF src.kind # "blob"
     THEN /\ unErr' = "UnpicklingError"
          /\ unResult' = <<>>
     ELSE LET r == LoadItems(rootfs[un.root], src.items, <<>>) IN
          /\ unErr' = r.err
          /\ unResult' = r.vals

\* ------------------------------------------------------- specification
\* files that were not written by a pickler of this run
OldArchive == ZipOf(<<Entry(<<"old">>, FALSE, Payload("s0"))>>)
HandMade ==
  {[kind |-> "blob", items |-> <<Val("a")>>],
   [kind |-> "blob", items |-> <<Val("a"), Ref("Bogus", "hx")>>],
   [kind |-> "blob", items |-> <<Val("zipbytes")>>],
   ZipOf(<<Entry(ManifestName, FALSE, ManifestData("hb", "1.0")),
           Entry(<<"hx", "f">>, FALSE, Payload("s1")),
           Entry(<<"hb">>, FALSE, BlobData(<<Ref("SFrame", "hx"), Ref("Bogus", "hx")>>))>>),
   \* a container of another format version
   ZipOf(<<Entry(ManifestName, FALSE, ManifestData("hb", "2.0")),
           Entry(<<"hx", "f">>, FALSE, Payload("s1")),
           Entry(<<"hb">>, FALSE, BlobData(<<Ref("SFrame", "hx")>>))>>)}

PicklerRoots == {"r1", "nx"}
\* one pickler writes, and its archive or the other file is opened
Writers == {"p1"}
OpenPaths == {"a1", "h"}

Init ==
  /\ disk \in {d \in [FilePaths -> {NoFile, OldArchive} \cup HandMade] :
                 /\ d["h"] \in HandMade
                 /\ d["a1"] \in {NoFile, OldArchive}
                 /\ d["a2"] = NoFile}
  /\ rootfs = [r \in AllRoots |-> {}]
  /\ uuidCount = 0
  /\ pk = [p \in Picklers |-> NoPickler]
  /\ pkRet = [p \in Picklers |-> NoRet]
  /\ pkErr = [p \in Picklers |-> "ok"]
  /\ orig = [p \in Picklers |-> <<>>]
  /\ rets = [p \in Picklers |-> <<>>]
  /\ un = NoUnpickler
  /\ unErr = "ok"
  /\ unExtracted = <<>>
  /\ unResult = <<>>
  /\ lastOp = [op |-> "Init", p |-> "", file |-> "", root |-> "", io1 |-> "ok", io2 |-> "ok"]

Next ==
  \/ \E p \in Writers, r \in PicklerRoots,
        ioOpen \in {"ok", "fail"}, ioZip \in {"ok", "failOpen", "failWrite"} :
       Construct(p, ArchiveOf(p), r, ioOpen, ioZip)
  \/ \E p \in Writers, obj \in Items : PersistentId(p, obj)
  \/ \E p \in Writers : Close(p)
  \/ \E f \in OpenPaths, r \in AllRoots :
       \/ Open(f, r, "ok", 0)
       \/ \E k \in {0, Len(infolist(disk[f])) - 1} : k >= 0 /\ Open(f, r, "fail", k)
  \/ Load

Spec == Init /\ [][Next]_vars

\* =============================================================== claims
\* the tags of the reconstructor registry
\* two picklers bound to the same staging root, each with its own archive
\* path, constructed, used and closed in any interleaving
\* each dumps a graph of its own: the states saved tell the two apart
ItemsOf(p) ==
  IF p = "p1" THEN {Obj("SFrame", "flat", "s1")} ELSE {Obj("KMeans", "nested", "s2")}
SharedRoot == "r1"

InitTwo ==
  /\ Init
  /\ disk["a1"] = NoFile
  /\ disk["h"] = [kind |-> "blob", items |-> <<Val("a")>>]

NextTwo ==
  \/ \E p \in Picklers : Construct(p, ArchiveOf(p), SharedRoot, "ok", "ok")
  \/ \E p \in Picklers : \E obj \in ItemsOf(p) : PersistentId(p, obj)
  \/ \E p \in Picklers : Close(p)

SpecTwo == InitTwo /\ [][NextTwo]_vars

RegistryTags == {"SFrame", "SGraph", "SArray", "Model"}

\* a pickler that went through construct, hook calls and exactly one close
Cycle(p) == pk[p].st = "live" /\ pk[p].closes = 1 /\ pk[p].late = 0

Entries(p) == infolist(disk[pk[p].archive])
Named(entries, name) == {i \in 1..Len(entries) : entries[i].name = name}

\* C1: round trip with externalized objects. After dump, close and load of
\* the finished archive, every externalized position holds the object
\* reconstructed for the original's tag from a directory whose contents are
\* what the original's save() wrote, and every other position is unchanged.
Same(o, r) ==
  IF Externalized(o)
  THEN r = Loaded(_get_gl_class_type(o.cls), SaveOutput(o.shape, o.state))
  ELSE r = o

C1_RoundTrip ==
  \A p \in Picklers :
    (lastOp.op = "Load" /\ p \in un.of /\ Cycle(p)) =>
      /\ unErr = "ok"
      /\ Len(unResult) = Len(orig[p])
      /\ \A i \in 1..Len(orig[p]) : Same(orig[p][i], unResult[i])

\* C2: after a complete pickler cycle the archive has exactly one entry
\* named pickle_file, and the name it stores resolves to exactly one entry,
\* the pickle of the graph.
C2_ManifestResolves ==
  \A p \in Picklers :
    Cycle(p) =>
      LET es == Entries(p)
          ms == Named(es, ManifestName)
      IN /\ Cardinality(ms) = 1
         /\ \A m \in ms :
              /\ Cardinality(Named(es, <<es[m].data.blob>>)) = 1
              /\ \A b \in Named(es, <<es[m].data.blob>>) : es[b].data.kind = "blob"

\* C3: when persistent_id returns a reference (tag, relative_path), the
\* archive holds at least one entry at or under relative_path, whatever the
\* object's save() produced.
C3_ReferenceResolves ==
  \A p \in Picklers :
    (lastOp.op = "PersistentId" /\ lastOp.p = p /\ pkRet[p].kind = "ref") =>
      \E i \in 1..Len(Entries(p)) : IsPrefix(<<pkRet[p].path>>, Entries(p)[i].name)

\* C4: a reference whose tag is not a registry tag makes load fail, with the
\* unpickling error when the hook is reached, and nothing is returned; from
\* a container as well as on the plain-pickle path.
UnknownRefs(items) ==
  {i \in 1..Len(items) : items[i].kind = "ref" /\ items[i].tag \notin RegistryTags}

C4_UnknownTagFatal ==
  (lastOp.op = "Load" /\ Source(un).kind = "blob") =>
    LET items == Source(un).items
        bad == UnknownRefs(items)
    IN bad # {} =>
         /\ unErr # "ok"
         /\ unResult = <<>>
         /\ (\A j \in 1..Len(items) :
               (items[j].kind = "ref" /\ \A i \in bad : j < i)
                 => Under(rootfs[un.root], items[j].path) # {})
            => unErr = "UnpicklingError"

C4_Witness ==
  /\ lastOp.op = "Load"
  /\ un.src = "staged"
  /\ Source(un).kind = "blob"
  /\ \E i \in UnknownRefs(Source(un).items) : i > 1
  /\ unErr = "UnpicklingError"

\* C5: opening a file that is recognized as a container and has no entry
\* named pickle_file fails with the unsupported-format IOError; there is no
\* unpickler to load from.
C5_MissingManifest ==
  (/\ lastOp.op = "Open"
   /\ lastOp.root \in ExistingRoots
   /\ disk[lastOp.file] # NoFile
   /\ is_zipfile(disk[lastOp.file])
   /\ Named(infolist(disk[lastOp.file]), ManifestName) = {}) =>
     /\ unErr = "IOError:format"
     /\ un.st = "failed"
     /\ unExtracted = <<>>

C5_Witness ==
  /\ lastOp.op = "Open"
  /\ disk[lastOp.file].kind = "zip"
  /\ Len(disk[lastOp.file].entries) > 0
  /\ unErr = "IOError:format"

\* C6: a pickle written without any externalization (no reference in it) is
\* always accepted: GLUnpickler reads from that same file, reads no
\* manifest and extracts nothing.
C6_PlainPickleAccepted ==
  (/\ lastOp.op = "Open"
   /\ lastOp.root \in ExistingRoots
   /\ disk[lastOp.file].kind = "blob"
   /\ \A i \in 1..Len(disk[lastOp.file].items) : disk[lastOp.file].items[i].kind # "ref") =>
     /\ unErr = "ok"
     /\ un.st = "ready"
     /\ un.src = "disk"
     /\ un.name = lastOp.file
     /\ unExtracted = <<>>

C8_SealedAfterClose ==
  [][\A p \in Picklers :
       (/\ pk[p].closes >= 1
        /\ lastOp'.p = p
        /\ \/ lastOp'.op = "Close"
           \/ /\ lastOp'.op = "PersistentId"
              /\ Externalized(orig'[p][Len(orig'[p])]))
       => (pkErr'[p] = "ArchiveClosedError" /\ disk' = disk)]_vars

\* C9: an I/O failure while the constructors open the staged pickle file,
\* write the manifest or extract the container surfaces as an error, and no
\* pickler / unpickler is returned.
C9_IOFailuresFatal ==
  /\ \A p \in Picklers :
       (/\ lastOp.op = "Construct" /\ lastOp.p = p
        /\ lastOp.root \in ExistingRoots
        /\ (lastOp.io1 = "fail" \/ lastOp.io2 # "ok"))
       => (pk[p].st = "failed" /\ pkErr[p] # "ok")
  /\ (/\ lastOp.op = "Open"
      /\ lastOp.io1 = "fail"
      /\ lastOp.root \in ExistingRoots
      /\ disk[lastOp.file].kind = "zip"
      /\ Named(disk[lastOp.file].entries, ManifestName) # {})
     => (un.st = "failed" /\ unErr # "ok")

\* C10: constructing a GLPickler or a GLUnpickler with a staging root that
\* does not exist fails with the invalid-path RuntimeError and touches no
\* file: no archive is created or truncated, no pickle file is staged,
\* nothing is extracted, and no object is returned.
C10_InvalidRoot ==
  [][(lastOp'.root \notin ExistingRoots) =>
       /\ lastOp'.op = "Construct" =>
            /\ pkErr'[lastOp'.p] = "RuntimeError:path"
            /\ pk'[lastOp'.p].st = "failed"
            /\ disk' = disk /\ rootfs' = rootfs /\ uuidCount' = uuidCount
       /\ lastOp'.op = "Open" =>
            /\ unErr' = "RuntimeError:path"
            /\ un'.st = "failed"
            /\ unExtracted' = <<>>
            /\ disk' = disk /\ rootfs' = rootfs]_vars

C10_Witness ==
  /\ lastOp.op = "Open"
  /\ lastOp.root \notin ExistingRoots
  /\ disk[lastOp.file].kind = "zip"
  /\ unErr = "RuntimeError:path"
  /\ \E p \in Picklers :
       /\ pk[p].st = "failed"
       /\ pkErr[p] = "RuntimeError:path"
       /\ disk[ArchiveOf(p)] = OldArchive
  /\ \A r \in AllRoots : rootfs[r] = {}

\* the references a pickler's hook calls returned, in order
RefsOf(r) == SelectSeq(r, LAMBDA x : x.kind = "ref")
\* the top-level names present in a staging root
NamesIn(fs) == {n.path[1] : n \in fs}

\* C11: distinct naming. Within one pickler run any two externalized objects
\* are given distinct relative paths, each of them differs from the staged
\* name of the pickle blob, and a name handed out by the constructor or by
\* the hook is not already present in the staging root at that moment.
C11_DistinctNaming ==
  [][\A p \in Picklers :
       /\ \A i, j \in 1..Len(RefsOf(rets'[p])) :
            i # j => RefsOf(rets'[p])[i].path # RefsOf(rets'[p])[j].path
       /\ \A i \in 1..Len(RefsOf(rets'[p])) : RefsOf(rets'[p])[i].path # pk'[p].blob
       /\ (lastOp'.op = "PersistentId" /\ lastOp'.p = p /\ pkRet'[p].kind = "ref")
            => pkRet'[p].path \notin NamesIn(rootfs[pk[p].root])
       /\ (lastOp'.op = "Construct" /\ lastOp'.p = p /\ pk'[p].st = "live")
            => pk'[p].blob \notin NamesIn(rootfs[pk'[p].root])]_vars

\* two objects were externalized by one pickler into a root that already
\* holds the staged blob and the first object's directory
C11_Witness ==
  \E p \in Picklers :
    /\ lastOp.op = "PersistentId" /\ lastOp.p = p
    /\ Len(RefsOf(rets[p])) = 2
    /\ Cardinality(NamesIn(rootfs[pk[p].root])) >= 3

\* the manifest entries of a container, by position
Manifests(f) == Named(infolist(f), ManifestName)
LastManifest(f) == infolist(f)[CHOOSE i \in Manifests(f) : \A j \in Manifests(f) : j <= i]

\* C12: version check. Opening a container whose manifest carries a version
\* other than "1.0" fails with an unsupported-version error: no unpickler is
\* returned for it.
C12_VersionChecked ==
  (/\ lastOp.op = "Open"
   /\ lastOp.root \in ExistingRoots
   /\ disk[lastOp.file].kind = "zip"
   /\ Manifests(disk[lastOp.file]) # {}
   /\ LastManifest(disk[lastOp.file]).data.version # "1.0")
  => (unErr = "UnsupportedVersionError" /\ un.st = "failed")

\* C13: recursive tree append. When the hook has externalized an object,
\* every file its save() wrote under the staged directory, at any depth, is
\* in the archive under staged_name/<path relative to the staged directory>.
C13_TreeAppended ==
  \A p \in Picklers :
    (lastOp.op = "PersistentId" /\ lastOp.p = p /\ pkRet[p].kind = "ref")
    => \A n \in save(orig[p][Len(orig[p])], pkRet[p].path) :
         ~n.isdir => \E i \in 1..Len(Entries(p)) :
                       /\ Entries(p)[i].name = n.path
                       /\ Entries(p)[i].data = n.data

\* the archive members under one staged name, in order, named relative to it
StripUnder(entries, path) ==
  LET under == SelectSeq(entries, LAMBDA e : e.name[1] = path)
  IN [i \in 1..Len(under) |-> [under[i] EXCEPT !.name = Tail(@)]]

\* C14: no deduplication. When the hook met the same externalized object at
\* two positions, save() ran for each (both staged directories hold its
\* output), the two references returned carry different relative paths, and
\* the archive holds a separate copy of the object's members under each path.
C14_NoDedup ==
  \A p \in Picklers : \A i, j \in 1..Len(orig[p]) :
    (i < j /\ orig[p][i] = orig[p][j] /\ Externalized(orig[p][i]))
    => /\ rets[p][i].kind = "ref" /\ rets[p][j].kind = "ref"
       /\ rets[p][i].path # rets[p][j].path
       /\ save(orig[p][i], rets[p][i].path) \subseteq rootfs[pk[p].root]
       /\ save(orig[p][j], rets[p][j].path) \subseteq rootfs[pk[p].root]
       /\ StripUnder(Entries(p), rets[p][i].path) = StripUnder(Entries(p), rets[p][j].path)
       /\ orig[p][i].shape # "empty" =>
            /\ Len(SelectSeq(Entries(p), LAMBDA e : e.name = <<rets[p][i].path, "f">>)) = 1
            /\ Len(SelectSeq(Entries(p), LAMBDA e : e.name = <<rets[p][j].path, "f">>)) = 1

\* one pickler was offered the same frame twice
C14_Witness ==
  \E p \in Picklers :
    /\ Len(orig[p]) = 2
    /\ orig[p][1] = orig[p][2]
    /\ orig[p][1].kind = "obj" /\ orig[p][1].shape = "flat"
    /\ Len(Entries(p)) >= 3

\* a class derives from the model base class: Model is among its ancestors
DerivesFromModel(cls) == \E i \in 2..Len(getmro(cls)) : getmro(cls)[i] = "Model"

\* C15: classification by declared type. The hook classifies an object by
\* its class alone: an SFrame, SGraph or SArray gets the tag of that name,
\* an instance of any class deriving from the model base class gets "Model",
\* whatever its other bases, and an object of any other class gets no tag
\* and is left inline.
C15_Classification ==
  \A p \in Picklers :
    (lastOp.op = "PersistentId" /\ lastOp.p = p /\ orig[p][Len(orig[p])].kind = "obj")
    => LET cls == orig[p][Len(orig[p])].cls IN
       /\ cls \in {"SFrame", "SGraph", "SArray"}
            => (pkRet[p].kind = "ref" /\ pkRet[p].tag = cls)
       /\ DerivesFromModel(cls) => (pkRet[p].kind = "ref" /\ pkRet[p].tag = "Model")
       /\ (cls \notin {"SFrame", "SGraph", "SArray"} /\ ~DerivesFromModel(cls))
            => pkRet[p] = NoRet

\* C16: pickler and loader agree on the tags. _is_gl_class holds of a class
\* exactly when _get_gl_class_type returns a tag for it, and every tag it
\* returns is one the loader dispatches on; so no reference the hook returns
\* carries the none tag, and loading a finished archive of a GLPickler never
\* ends in the loader's unknown-tag error.
C16_TagsAgree ==
  /\ \A c \in Classes :
       /\ _is_gl_class(c) <=> _get_gl_class_type(c) # None
       /\ _get_gl_class_type(c) # None => KnownTag(_get_gl_class_type(c))
  /\ \A p \in Picklers : \A i \in 1..Len(rets[p]) :
       rets[p][i].kind = "ref" => (rets[p][i].tag # None /\ KnownTag(rets[p][i].tag))
  /\ (lastOp.op = "Load" /\ un.of # {}) => unErr # "UnpicklingError"

\* a finished archive holding a model reference was opened and loaded
C16_Witness ==
  /\ lastOp.op = "Load"
  /\ unErr = "ok"
  /\ \E p \in un.of : \E i \in 1..Len(rets[p]) :
       rets[p][i].kind = "ref" /\ rets[p][i].tag = "Model"

\* C17: staging root unchanged on failed open. When GLUnpickler is
\* constructed with a staging root that does not exist, with an input file
\* that does not exist, or with a container that has no manifest entry, the
\* construction fails, no entry of the input has been extracted, and every
\* staging root holds what it held before the call.
C17_RootUnchanged ==
  [][(/\ lastOp'.op = "Open"
      /\ \/ lastOp'.root \notin ExistingRoots
         \/ disk[lastOp'.file] = NoFile
         \/ is_zipfile(disk[lastOp'.file]) /\ Manifests(disk[lastOp'.file]) = {})
     => (/\ un'.st = "failed"
         /\ unErr' \in {"RuntimeError:path", "RuntimeError:file", "IOError:format"}
         /\ unExtracted' = <<>>
         /\ rootfs' = rootfs)]_vars

\* a container without manifest was refused over a root that holds files
C17_Witness ==
  /\ lastOp.op = "Open"
  /\ unErr = "IOError:format"
  /\ un.st = "failed"
  /\ rootfs[lastOp.root] # {}

\* the staged names a pickler was given: its blob and its references
OwnNames(p) ==
  {pk[p].blob} \cup {RefsOf(rets[p])[i].path : i \in 1..Len(RefsOf(rets[p]))}
\* what a pickler wrote to its pickle file, item by item, before it closed it
WrittenBy(p) ==
  [i \in 1..(Len(orig[p]) - pk[p].late) |->
     IF rets[p][i].kind = "ref" THEN rets[p][i] ELSE orig[p][i]]

\* C18: isolation of writers sharing a staging root. With two picklers on
\* one staging root and different archive paths, in every interleaving of
\* their constructions, hook calls and closes, each archive holds only
\* members of its own pickler (its manifest, its blob, members under its own
\* references, with the contents its own pickler staged) and none named by
\* the other; once finished it holds its manifest once, its blob once with
\* exactly its own items, and the saved files of each of its references.
C18_Isolation ==
  \A p \in Picklers : pk[p].st = "live" =>
    /\ \A i \in 1..Len(Entries(p)) :
         LET e == Entries(p)[i] IN
         \/ e.name = ManifestName /\ e.data = ManifestData(pk[p].blob, "1.0")
         \/ e.name = <<pk[p].blob>> /\ e.data = BlobData(WrittenBy(p))
         \/ \E k \in 1..Len(orig[p]) :
              /\ rets[p][k].kind = "ref"
              /\ Node(e.name, e.isdir, e.data) \in save(orig[p][k], rets[p][k].path)
    /\ \A q \in Picklers \ {p} : \A i \in 1..Len(Entries(p)) :
         pk[q].st = "live" => Entries(p)[i].name[1] \notin OwnNames(q)
    /\ Cycle(p) =>
         /\ Cardinality(Named(Entries(p), ManifestName)) = 1
         /\ Cardinality(Named(Entries(p), <<pk[p].blob>>)) = 1
         /\ \A k \in 1..Len(orig[p]) :
              (rets[p][k].kind = "ref" /\ orig[p][k].shape # "empty")
              => Cardinality(Named(Entries(p), <<rets[p][k].path, "f">>)) = 1

\* both archives are finished, each with a reference, the hook calls of the
\* two picklers having alternated
C18_Witness ==
  /\ Cycle("p1") /\ Cycle("p2")
  /\ pk["p1"].root = pk["p2"].root
  /\ pk["p1"].archive # pk["p2"].archive
  /\ \E i \in 1..Len(rets["p1"]) : rets["p1"][i].kind = "ref" /\ rets["p1"][i].path = "u4"
  /\ \E i \in 1..Len(rets["p2"]) : rets["p2"][i].kind = "ref" /\ rets["p2"][i].path = "u3"
  /\ \E i \in 1..Len(rets["p2"]) : rets["p2"][i].kind = "ref" /\ rets["p2"][i].path = "u5"
====
